---- MODULE Spec2Model ----
(***************************************************************************)
(* Per-frame motion rule of the floating bodies of the moon scene          *)
(* (FloatingObject.useFrame) and the position registry the bodies share    *)
(* (Scene.objectPositions, passed to every body as allObjects).            *)
(*                                                                         *)
(* Numbers.  Vector components are fixed-point integers, Unit steps per    *)
(* scene unit, rounded to the nearest step after every vector operation    *)
(* (JavaScript rounds to the nearest double after every operation).       *)
(* Scalars (the tuning constants, distances, the repulsion strength) are   *)
(* exact rationals <<numerator, denominator>> with denominator > 0.        *)
(* Body indices are the code's 0-based indices.                            *)
(***************************************************************************)
EXTENDS Integers, Sequences, FiniteSets, TLC

Unit == 1000

MaxFrames == 4

-----------------------------------------------------------------------------
(* Scalars *)

Num(n) == <<n, 1>>

RAdd(a, b) == <<a[1] * b[2] + b[1] * a[2], a[2] * b[2]>>

RSub(a, b) == <<a[1] * b[2] - b[1] * a[2], a[2] * b[2]>>

RMul(a, b) == <<a[1] * b[1], a[2] * b[2]>>

RDiv(a, b) == <<a[1] * b[2], a[2] * b[1]>>

RLt(a, b) == a[1] * b[2] < b[1] * a[2]

RGt(a, b) == RLt(b, a)

REq(a, b) == a[1] * b[2] = b[1] * a[2]

Abs(n) == IF n < 0 THEN -n ELSE n

\* a / b rounded to the nearest integer, halves away from zero (b > 0)
Q(a, b) == IF a < 0 THEN -((2 * (-a) + b) \div (2 * b)) ELSE (2 * a + b) \div (2 * b)

RECURSIVE SqrtIter(_, _, _)
SqrtIter(n, lo, hi) ==
    IF lo >= hi THEN lo
    ELSE LET mid == (lo + hi + 1) \div 2
         IN  IF mid * mid <= n THEN SqrtIter(n, mid, hi) ELSE SqrtIter(n, lo, mid - 1)

\* square root rounded to the nearest integer
Sqrt(n) ==
    LET r == SqrtIter(n, 0, 46340)
    IN  IF n - r * r > r THEN r + 1 ELSE r

-----------------------------------------------------------------------------
(* Tuning constants, lines 11-16 *)

MOON_RADIUS == 3

GRAVITY_STRENGTH == <<2, 100>>

REPULSION_STRENGTH == <<3, 10>>

DAMPING == <<95, 100>>

MOUSE_INFLUENCE_RADIUS == 4

OBJECT_SPACING == <<6, 10>>

-----------------------------------------------------------------------------
(* three.js Vector3, as the component uses it *)

Zero == <<0, 0, 0>>

Vec(x, y, z) == <<x * Unit, y * Unit, z * Unit>>

add(a, b) == <<a[1] + b[1], a[2] + b[2], a[3] + b[3]>>

sub(a, b) == <<a[1] - b[1], a[2] - b[2], a[3] - b[3]>>

multiplyScalar(v, s) == <<Q(v[1] * s[1], s[2]), Q(v[2] * s[1], s[2]), Q(v[3] * s[1], s[2])>>

length(v) == Sqrt(v[1] * v[1] + v[2] * v[2] + v[3] * v[3])

\* Vector3.normalize is divideScalar(length() || 1): the zero vector stays zero
normalizeUnguarded(v) ==
    LET l == length(v)
    IN  IF l = 0 THEN <<Unit, 0, 0>>
        ELSE <<Q(v[1] * Unit, l), Q(v[2] * Unit, l), Q(v[3] * Unit, l)>>

normalize(v) ==
    LET l == length(v)
        d == IF l = 0 THEN Unit ELSE l
    IN  <<Q(v[1] * Unit, d), Q(v[2] * Unit, d), Q(v[3] * Unit, d)>>

\* Vector3.lerp(t, alpha): this += (t - this) * alpha
lerp(p, t, alpha) == add(p, multiplyScalar(sub(t, p), alpha))

\* a distance in scene units, as a scalar
calculateDistance(pos1, pos2) == <<length(sub(pos1, pos2)), Unit>>

moonCenter == Zero

-----------------------------------------------------------------------------
(* The conditions and force terms of FloatingObject.useFrame, lines 65-98 *)

\* line 70
attractsWithinShell(distanceToMoon) == RGt(distanceToMoon, RSub(Num(MOON_RADIUS), <<1, 1>>))

attracts(distanceToMoon) == RGt(distanceToMoon, Num(MOON_RADIUS))

\* line 71-72
gravityAway(objectPosition) ==
    multiplyScalar(normalize(sub(objectPosition, moonCenter)), GRAVITY_STRENGTH)

gravity(objectPosition) ==
    multiplyScalar(normalize(sub(moonCenter, objectPosition)), GRAVITY_STRENGTH)

\* line 75
repels(distanceToMouse) == RLt(distanceToMouse, Num(MOUSE_INFLUENCE_RADIUS))

\* line 77
repulsionStrengthRising(distanceToMouse) ==
    RMul(REPULSION_STRENGTH, RDiv(distanceToMouse, Num(MOUSE_INFLUENCE_RADIUS)))

repulsionStrength(distanceToMouse) ==
    RMul(REPULSION_STRENGTH,
         RSub(Num(1), RDiv(distanceToMouse, Num(MOUSE_INFLUENCE_RADIUS))))

\* line 76, 78
repulsion(objectPosition, mousePosition, distanceToMouse) ==
    multiplyScalar(normalize(sub(objectPosition, mousePosition)),
                   repulsionStrength(distanceToMouse))

\* line 83-84
tooClose(objectPosition, otherPos) ==
    RLt(calculateDistance(objectPosition, otherPos), OBJECT_SPACING)

\* line 85-86
avoidanceTerm(objectPosition, otherPos) ==
    multiplyScalar(normalize(sub(objectPosition, otherPos)), <<2, 100>>)

\* lines 81-89: allObjects.forEach, the terms of the entries i # index, i < n
RECURSIVE avoidance(_, _, _, _)
avoidance(index, objectPosition, allObjects, n) ==
    IF n = 0 THEN Zero
    ELSE LET i == n - 1
             rest == avoidance(index, objectPosition, allObjects, i)
         IN  IF i # index /\ tooClose(objectPosition, allObjects[i])
             THEN add(rest, avoidanceTerm(objectPosition, allObjects[i]))
             ELSE rest

\* line 93
snapsBelowRadius(distanceToMoon) == RLt(distanceToMoon, Num(MOON_RADIUS))

snapsNever(distanceToMoon) == FALSE

snaps(distanceToMoon) == RLt(distanceToMoon, RAdd(Num(MOON_RADIUS), <<5, 10>>))

\* lines 94-96, on the position line 91 has already moved
surface(objectPosition) ==
    lerp(objectPosition,
         multiplyScalar(normalize(objectPosition), RAdd(Num(MOON_RADIUS), <<5, 10>>)),
         <<2, 10>>)

\* line 100
commitNothing(allObjects, index, position) == allObjects

commitSlotZero(allObjects, index, position) == [allObjects EXCEPT ![0] = position]

commit(allObjects, index, position) == [allObjects EXCEPT ![index] = position]

\* lines 51-101: one call of the frame callback of body index, with every
\* intermediate value it computes
step(index, p, v, allObjects, mousePosition) ==
    LET distanceToMoon == calculateDistance(p, moonCenter)
        distanceToMouse == calculateDistance(p, mousePosition)
        damped == multiplyScalar(v, DAMPING)
        g == IF attracts(distanceToMoon) THEN gravity(p) ELSE Zero
        r == IF repels(distanceToMouse) THEN repulsion(p, mousePosition, distanceToMouse)
             ELSE Zero
        a == avoidance(index, p, allObjects, Cardinality(DOMAIN allObjects))
        velocity == add(add(add(damped, g), r), a)
        moved == add(p, velocity)
        snap == snaps(distanceToMoon)
    IN  [index |-> index,
         from |-> p,
         velocityBefore |-> v,
         read |-> allObjects,
         mousePosition |-> mousePosition,
         distanceToMoon |-> distanceToMoon[1],
         distanceToMouse |-> distanceToMouse[1],
         attracted |-> attracts(distanceToMoon),
         gravityTerm |-> g,
         repelled |-> repels(distanceToMouse),
         strength |-> IF repels(distanceToMouse) THEN repulsionStrength(distanceToMouse)
                      ELSE <<0, 1>>,
         repulsionTerm |-> r,
         avoidanceSum |-> a,
         moved |-> moved,
         snapped |-> snap,
         position |-> IF snap THEN surface(moved) ELSE moved,
         velocity |-> IF snap THEN multiplyScalar(velocity, <<8, 10>>) ELSE velocity]

-----------------------------------------------------------------------------
(* State *)

VARIABLES
    position,    \* the position prop of every body (Scene, line 192)
    allObjects,  \* the registry: Scene.objectPositions, shared by reference
    mesh,        \* meshRef.current.position of every body
    velocity,    \* velocityRef.current of every body
    mounted,     \* number of bodies whose mount effect has run
    mouse,       \* the pointer position the current pass reads
    frame,       \* number of passes started
    next,        \* place in the current pass: bodies before it have been called
    frameStart,  \* the registry as the current pass found it
    calls,       \* number of frame callbacks every body has run
    last         \* the values of the most recent frame callback

vars == <<position, allObjects, mesh, velocity, mounted, mouse, frame, next,
          frameStart, calls, last>>

\* Registries a session can start from: FloatingObject takes any position prop
Layouts ==
    { <<Vec(10, 0, 0), Vec(0, 10, 0), Vec(0, 0, 10)>>,
      <<Vec(5, 0, 0), <<5300, 400, 0>>, Vec(0, 1, 6)>>,
      <<Vec(2, 0, 0), Vec(0, 0, 0), Vec(0, 3, 0)>>,
      <<Vec(5, 0, 0), Vec(5, 0, 0), Vec(6, 0, 0)>>,
      <<<<3600, 0, 0>>, <<0, 3200, 0>>, Vec(0, 0, 4)>> }

\* Pointer positions: mousePosition has z = 0 (lines 59-63)
FarPointer == Vec(0, -10, 0)

Pointers == { FarPointer, Vec(6, 0, 0), Vec(4, 0, 0) }

N == Cardinality(DOMAIN allObjects)

Bodies == DOMAIN allObjects

NoCall ==
    [index |-> -1, from |-> Zero, velocityBefore |-> Zero, read |-> <<>>,
     mousePosition |-> Zero, distanceToMoon |-> 0, distanceToMouse |-> 0,
     attracted |-> FALSE, gravityTerm |-> Zero, repelled |-> FALSE,
     strength |-> <<0, 1>>, repulsionTerm |-> Zero, avoidanceSum |-> Zero,
     moved |-> Zero, snapped |-> FALSE, position |-> Zero, velocity |-> Zero]

\* Scene renders one FloatingObject per registry entry, in index order
\* (lines 189-197); effects and frame callbacks run in that order
subscriberDescending(k, n) == n - 1 - k

subscriber(k, n) == k

\* Scene and the construction of every FloatingObject (lines 34-36, 158-197):
\* a new mesh is at the origin, the velocity is zero
Init ==
    \E l \in Layouts :
        /\ position = [i \in 0..(Len(l) - 1) |-> l[i + 1]]
        /\ allObjects = position
        /\ mesh = [i \in 0..(Len(l) - 1) |-> Zero]
        /\ velocity = [i \in 0..(Len(l) - 1) |-> Zero]
        /\ mounted = 0
        /\ mouse = FarPointer
        /\ frame = 0
        /\ next = Len(l)
        /\ frameStart = position
        /\ calls = [i \in 0..(Len(l) - 1) |-> 0]
        /\ last = [NoCall EXCEPT !.read = position]

\* lines 45-49: the mount effect of the next body
useEffect ==
    /\ mounted < N
    /\ LET i == subscriber(mounted, N)
       IN  mesh' = [mesh EXCEPT ![i] = position[i]]
    /\ mounted' = mounted + 1
    /\ UNCHANGED <<position, allObjects, velocity, mouse, frame, next, frameStart,
                   calls, last>>

\* the render loop starts a pass once the previous one has run to its end;
\* the pointer may have moved in between
Frame ==
    /\ mounted = N
    /\ next = N
    /\ frame < MaxFrames
    /\ \E m \in Pointers : mouse' = m
    /\ frame' = frame + 1
    /\ next' = 0
    /\ frameStart' = allObjects
    /\ UNCHANGED <<position, allObjects, mesh, velocity, mounted, calls, last>>

\* lines 51-101: the frame callback of the next body of the pass; every mesh
\* is mounted by then, so the early return of line 52 is never taken
useFrame ==
    /\ mounted = N
    /\ next < N
    /\ LET index == subscriber(next, N)
           s == step(index, mesh[index], velocity[index], allObjects, mouse)
       IN  /\ velocity' = [velocity EXCEPT ![index] = s.velocity]
           /\ mesh' = [mesh EXCEPT ![index] = s.position]
           /\ allObjects' = commit(allObjects, index, s.position)
           /\ calls' = [calls EXCEPT ![index] = @ + 1]
           /\ last' = s
    /\ next' = next + 1
    /\ UNCHANGED <<position, mounted, mouse, frame, frameStart>>

Next == useEffect \/ Frame \/ useFrame

Spec == Init /\ [][Next]_vars

-----------------------------------------------------------------------------
(* Vocabulary of the properties *)

Coordinates == Int \X Int \X Int

TypeOK ==
    /\ \A i \in Bodies :
          mesh[i] \in Coordinates /\ velocity[i] \in Coordinates
          /\ allObjects[i] \in Coordinates
    /\ next \in 0..N
    /\ frame \in 0..MaxFrames

\* a frame callback has run, and last holds its values
Called == last.index >= 0

dot(a, b) == a[1] * b[1] + a[2] * b[2] + a[3] * b[3]

\* the distance between two points is at least r / 10 scene units
AtLeastTenths(a, b, r) == 10 * length(sub(a, b)) >= r * Unit

\* 100 * a is within tol hundredths of a step of pct * b
WithinPct(a, pct, b, tol) == Abs(100 * a - pct * b) <= tol

VecWithinPct(a, pct, b, tol) == \A k \in 1..3 : WithinPct(a[k], pct, b[k], tol)

\* the last callback found no pointer within range and no neighbour within spacing
Undisturbed ==
    /\ AtLeastTenths(last.from, last.mousePosition, 40)
    /\ \A j \in Bodies : j # last.index => AtLeastTenths(last.from, last.read[j], 6)

-----------------------------------------------------------------------------
(* Properties *)

EndToEndLayout == [i \in 0..2 |-> <<Vec(10, 0, 0), Vec(0, 10, 0), Vec(0, 0, 10)>>[i + 1]]

EndToEndResult == [i \in 0..2 |-> <<<<9980, 0, 0>>, <<0, 9980, 0>>, <<0, 0, 9980>>>>[i + 1]]

EndToEndCase ==
    /\ position = EndToEndLayout
    /\ frame = 1
    /\ next = N
    /\ \A i \in Bodies : length(sub(mouse, position[i])) > 4 * Unit

\* C1: from the registry (10,0,0), (0,10,0), (0,0,10) with zero velocities and
\* the pointer farther than 4 from every body, one full pass leaves every body
\* at its old position plus normalize(-old) * 0.02, the registry slots hold
\* exactly those positions, and nothing but the attraction fired.
C1_EndToEnd ==
    EndToEndCase =>
        /\ \A i \in Bodies :
              /\ mesh[i] = EndToEndResult[i]
              /\ allObjects[i] = EndToEndResult[i]
              /\ velocity[i] = sub(EndToEndResult[i], EndToEndLayout[i])
        /\ last.repulsionTerm = Zero /\ last.avoidanceSum = Zero /\ ~last.snapped

C1_Witness == EndToEndCase /\ mouse = Vec(4, 0, 0) /\ last.index = 2

\* what the callback of body i must have read in slot j: for an earlier body
\* its position of this pass, for a later one the registry of the pass start
ExpectedRead(i) == [j \in Bodies |-> IF j < i THEN mesh[j] ELSE frameStart[j]]

\* C2: a pass calls every body once, in ascending index order, and ends before
\* the next begins; the callback of body i reads for j < i the position j
\* committed in this pass and for j > i the one it committed in the pass
\* before, and its avoidance nudge is computed from exactly those positions.
C2_OrderAsymmetry ==
    mounted = N =>
        /\ \A j \in Bodies : calls[j] = IF j < next THEN frame ELSE frame - 1
        /\ (Called /\ next > 0) =>
              /\ last.index = next - 1
              /\ \A j \in Bodies :
                    j # last.index => last.read[j] = ExpectedRead(last.index)[j]
              /\ \A j \in Bodies :
                    j > last.index => mesh[j] = frameStart[j]
              /\ last.avoidanceSum =
                     avoidance(last.index, last.from, ExpectedRead(last.index), N)

\* bodies 0 and 1 started within spacing; body 1 has just been nudged (here:
\* not nudged) from the moved position of body 0, not from its old one
C2_Witness ==
    /\ frame = 1
    /\ last.index = 1
    /\ ~AtLeastTenths(position[0], position[1], 6)
    /\ mesh[0] # position[0]
    /\ last.read[0] = mesh[0]
    /\ last.avoidanceSum # avoidance(1, last.from, frameStart, N)

\* C3: once the bodies are mounted, and after every frame callback, every
\* registry slot holds the current position of its body, which for the body
\* just called is the result of its callback, surface correction included.
C3_RegistryConsistent ==
    mounted = N =>
        /\ \A i \in Bodies : allObjects[i] = mesh[i]
        /\ Called => allObjects[last.index] = last.position

C3_Witness ==
    /\ Called
    /\ last.snapped
    /\ last.position # last.moved
    /\ allObjects[last.index] = last.position

\* the attraction term is there exactly when the body starts farther than R
\* from the centre, and then has magnitude 0.02 and points to the centre
AttractionOneSided ==
    /\ (last.gravityTerm # Zero) <=> (last.distanceToMoon > MOON_RADIUS * Unit)
    /\ last.gravityTerm # Zero =>
          /\ Abs(length(last.gravityTerm) - 20) <= 1
          /\ dot(last.gravityTerm, last.from) < 0
          /\ \A k \in 1..3 : last.from[k] = 0 => last.gravityTerm[k] = 0

InsideUndisturbed ==
    /\ Called
    /\ last.distanceToMoon <= MOON_RADIUS * Unit
    /\ Undisturbed

\* C4 as stated: ... and a body at distance <= R that nothing else disturbs
\* has its velocity changed by the 0.95 damping only.
C4_DampingOnly ==
    Called =>
        /\ AttractionOneSided
        /\ InsideUndisturbed =>
              /\ last.gravityTerm = Zero
              /\ VecWithinPct(last.velocity, 95, last.velocityBefore, 100)

\* C4: the attraction term (magnitude 0.02, toward the centre) is added if and
\* only if the distance at the start of the callback is > R; a body at
\* distance <= R that nothing else disturbs gets no attraction term and its
\* velocity is multiplied by 0.95 and by the 0.8 of the surface correction.
C4_OneSidedAttraction ==
    Called =>
        /\ AttractionOneSided
        /\ InsideUndisturbed =>
              /\ last.gravityTerm = Zero
              /\ VecWithinPct(last.velocity, 76, last.velocityBefore, 100)

C4_Witness ==
    /\ InsideUndisturbed
    /\ length(last.velocityBefore) > 50
    /\ last.velocity # Zero

\* the shell point of a position on an axis, and a fifth of the way to it
ShellPoint(p) == [k \in 1..3 |-> IF p[k] > 0 THEN 3500 ELSE IF p[k] < 0 THEN -3500 ELSE 0]

OnAxis(p) == Cardinality({k \in 1..3 : p[k] # 0}) = 1

\* C5 as stated: the surface correction is applied if and only if the
\* integrated position (position + velocity) is at distance < R + 0.5 from the
\* centre; when applied the position moves 20% of the way to
\* normalize(position) * (R + 0.5) and the velocity is multiplied by 0.8 on
\* top of the 0.95 damping; a body at rest at distance R - 1 that nothing
\* disturbs ends the callback 20% closer to its shell point.
C5_SurfaceOnIntegrated ==
    Called =>
        /\ last.snapped <=> (10 * length(last.moved) < 35 * Unit)
        /\ (last.snapped /\ OnAxis(last.moved)) =>
              \A k \in 1..3 :
                  WithinPct(last.position[k] - last.moved[k], 20,
                            ShellPoint(last.moved)[k] - last.moved[k], 100)
        /\ (~last.snapped) => last.position = last.moved
        /\ (last.from = Vec(2, 0, 0) /\ last.velocityBefore = Zero /\ Undisturbed) =>
              last.position = <<2300, 0, 0>>

\* the body at rest at distance R - 1 has been moved 20% of the way to its
\* shell point (3.5, 0, 0)
C5_RestCase ==
    /\ Called
    /\ last.from = Vec(2, 0, 0)
    /\ last.velocityBefore = Zero
    /\ Undisturbed
    /\ last.position = <<2300, 0, 0>>

\* the strengths the falloff is compared at, around the distance d
FalloffSamples(d) == {1, d - 1, d, d + 1, 4 * Unit - 1} \cap (1..(4 * Unit - 1))

\* C6: for a body at distance d from the pointer the repulsion term has
\* magnitude 0.3 * (1 - d/4) and points away from the pointer when 0 < d < 4,
\* is absent when d >= 4 (d = 4 included) and is the zero vector when d = 0;
\* the strength lies in [0, 0.3) and strictly decreases in d on (0, 4)
\* (the term itself, rounded to the step, never exceeds 0.3).
C6_RepulsionFalloff ==
    Called =>
        LET d == last.distanceToMouse
            away == sub(last.from, last.mousePosition)
        IN  /\ (0 < d /\ d < 4 * Unit) =>
                  /\ last.strength[2] > 0
                  /\ REq(last.strength, <<3 * (4 * Unit - d), 40 * Unit>>)
                  /\ RGt(last.strength, <<0, 1>>) /\ RLt(last.strength, <<3, 10>>)
                  /\ Abs(40 * length(last.repulsionTerm) - 3 * (4 * Unit - d)) <= 80
                  /\ dot(last.repulsionTerm, away) >= 0
                  /\ \A k \in 1..3 : away[k] = 0 => last.repulsionTerm[k] = 0
                  /\ \A d1, d2 \in FalloffSamples(d) :
                        d1 < d2 => RGt(repulsionStrength(<<d1, Unit>>),
                                       repulsionStrength(<<d2, Unit>>))
            /\ d >= 4 * Unit => last.repulsionTerm = Zero
            /\ d = 0 => last.repulsionTerm = Zero
            /\ d = 0 \/ RLt(last.strength, REPULSION_STRENGTH)
            /\ length(last.repulsionTerm) <= 300

C6_Witness ==
    /\ Called
    /\ last.distanceToMouse = Unit
    /\ last.repulsionTerm = <<-225, 0, 0>>

\* the pointer exactly at range, and exactly on a body
C6_AtRange == Called /\ last.distanceToMouse = 4 * Unit

C6_OnBody == Called /\ last.distanceToMouse = 0 /\ last.mousePosition = last.from

\* every neighbour the last callback found within spacing was at its own position
OnlyCoincident ==
    \A j \in Bodies :
        j # last.index => (AtLeastTenths(last.from, last.read[j], 6)
                            \/ last.read[j] = last.from)

\* C7: a zero-length direction normalizes to the zero vector: a body on the
\* pointer gets a zero repulsion term, a body on top of another a zero
\* avoidance term, a body at the centre no attraction and a zero shell point;
\* every position, velocity and registry entry stays a number, and a body at
\* rest at the centre that nothing disturbs stays at the centre.
C7_Degenerate ==
    /\ TypeOK
    /\ Called =>
          /\ last.from = last.mousePosition => last.repulsionTerm = Zero
          /\ OnlyCoincident => last.avoidanceSum = Zero
          /\ last.from = moonCenter => last.gravityTerm = Zero
          /\ (last.moved = moonCenter /\ last.snapped) => last.position = moonCenter
          /\ (last.from = moonCenter /\ last.velocityBefore = Zero /\ Undisturbed) =>
                /\ last.position = moonCenter
                /\ last.velocity = Zero
                /\ mesh[last.index] = moonCenter
                /\ allObjects[last.index] = moonCenter

C7_Witness ==
    /\ Called
    /\ last.from = moonCenter
    /\ last.velocityBefore = Zero
    /\ Undisturbed
    /\ last.snapped
    /\ mesh[last.index] = moonCenter
    /\ frame = MaxFrames

C7_OnPointer == Called /\ last.from = last.mousePosition /\ last.repelled

C7_Coincident ==
    /\ Called
    /\ \E j \in Bodies : j # last.index /\ last.read[j] = last.from
    /\ OnlyCoincident

\* the last callback added no force term
NoForce ==
    /\ Called
    /\ last.gravityTerm = Zero
    /\ last.repulsionTerm = Zero
    /\ last.avoidanceSum = Zero

\* C8 as stated: in a frame that adds no force term the speed after the frame
\* is 0.95 times the speed before it.
C8_Ratio95 ==
    NoForce => WithinPct(length(last.velocity), 95, length(last.velocityBefore), 300)

\* C8: a frame that adds no force term (the body is then at distance <= R,
\* where the surface correction always applies) leaves the speed at
\* 0.95 * 0.8 = 0.76 times the speed before it: geometric decay, ratio 0.76.
C8_Ratio76 ==
    NoForce => WithinPct(length(last.velocity), 76, length(last.velocityBefore), 300)

C8_Witness ==
    /\ NoForce
    /\ length(last.velocityBefore) > 50
    /\ calls[last.index] >= 3
    /\ length(last.velocity) < length(last.velocityBefore)

\* C9: a frame callback changes the position, the velocity and the registry
\* slot of its own body only; the registry keeps its length and the props
\* their bodies.
C9_SingleWriter ==
    [][/\ DOMAIN allObjects' = DOMAIN allObjects
       /\ position' = position
       /\ \A j \in Bodies :
             calls'[j] = calls[j] =>
                 /\ allObjects'[j] = allObjects[j]
                 /\ velocity'[j] = velocity[j]
                 /\ mounted = N => mesh'[j] = mesh[j]
       /\ Cardinality({j \in Bodies : calls'[j] # calls[j]}) <= 1]_vars

C9_Witness ==
    /\ Called
    /\ last.index = 1
    /\ frame = 2
    /\ allObjects[1] # frameStart[1]
    /\ allObjects[0] # position[0]
    /\ allObjects[2] = frameStart[2]

\* C10: both tests use the distance at the start of the callback, so every
\* callback applies the attraction or the surface correction: attraction only
\* from R + 0.5 on, correction only up to R, both in between; no callback
\* changes the velocity by the 0.95 damping alone.
C10_OneOfTwo ==
    Called =>
        LET d == last.distanceToMoon
            pulled == last.gravityTerm # Zero
            corrected == last.snapped
        IN  /\ pulled \/ corrected
            /\ 10 * d >= 35 * Unit => (pulled /\ ~corrected)
            /\ d <= MOON_RADIUS * Unit => (corrected /\ ~pulled)
            /\ (d > MOON_RADIUS * Unit /\ 10 * d < 35 * Unit) => (pulled /\ corrected)
            /\ ~corrected => last.position = last.moved
            /\ (corrected /\ length(last.velocityBefore) >= 10 /\ NoForce) =>
                  last.velocity # multiplyScalar(last.velocityBefore, DAMPING)

C10_Witness ==
    /\ Called
    /\ last.distanceToMoon > MOON_RADIUS * Unit
    /\ 10 * last.distanceToMoon < 35 * Unit
    /\ last.gravityTerm # Zero
    /\ last.snapped
    /\ last.position # last.moved

====
